---- MODULE Spec2Model ----
(***************************************************************************)
(* A model of easymodel.treemodel: TreeItem (the Node of the design),      *)
(* TreeModel (the TreeIndexer) and the QModelIndex handles it issues.      *)
(*                                                                         *)
(* Tree items are the numbers 1..NumNodes; 0 stands for Python's None.     *)
(* Every method of the source is an operator from a heap record            *)
(*   [_parent, childItems, _model, events, err]                            *)
(* to the heap record after the call.  err is "ok" or the name of the      *)
(* Python exception that ended the call; once it is raised the rest of the *)
(* call is skipped, exactly as the interpreter unwinds.                    *)
(***************************************************************************)
EXTENDS Integers, Sequences, FiniteSets, TLC

VARIABLES _parent, childItems, _model, _data, _list, _root, levels, _edit_widgets,
          editors, events, err, call, misuse

vars == <<_parent, childItems, _model, _data, _list, _root, levels, _edit_widgets,
          editors, events, err, call, misuse>>

\* ------------------------------------------------------------------ bounds
NumNodes == 4
MaxKids == 3
MaxColumn == 2
MaxMisuse == 1
MaxValue == 1
Depth == 3
MaxEditors == 3

None == 0
Nodes == 1..NumNodes
\* The tree item every test builds with TreeItem(None) and hands to TreeModel.
RootItem == 1
\* The one TreeModel instance; a detached item has _model = None.
TheModel == 1

Rows == (0 - 1)..MaxKids
Columns == (0 - 1)..MaxColumn
\* Python values by type and by the text str() gives for them.
PyNone == [type |-> "NoneType", v |-> "None"]
PyInt(i) == [type |-> "int", v |-> ToString(i)]
PyLong == [type |-> "long", v |-> "18446744073709551616"]
PyFloat == [type |-> "float", v |-> "0.5"]
PyFalse == [type |-> "bool", v |-> "False"]
PyStr(x) == [type |-> "str", v |-> x]

\* str(value)
str(value) == PyStr(value.v)

\* What a caller may store in a column; every list is built holding 0.
Values == {PyInt(i) : i \in 0..MaxValue}

\* One value of every type a list may as well hold.
PyValues == Values \cup {PyLong, PyFloat, PyNone, PyFalse, PyStr("a")}

\* ---------------------------------------------------------- Python lists
\* list.index(x): the first 0-based position of x, -1 standing for ValueError.
PyIndex(l, x) ==
    IF \E i \in 1..Len(l) : l[i] = x
    THEN (CHOOSE i \in 1..Len(l) : l[i] = x /\ \A j \in 1..(i - 1) : l[j] # x) - 1
    ELSE 0 - 1

\* list.insert(row, x): negative rows count from the end, both ends clamp.
PyInsert(l, row, x) ==
    LET r0 == IF row < 0 THEN row + Len(l) ELSE row
        r  == IF r0 < 0 THEN 0 ELSE IF r0 > Len(l) THEN Len(l) ELSE r0
    IN  SubSeq(l, 1, r) \o <<x>> \o SubSeq(l, r + 1, Len(l))

\* l[row] and del l[row] raise IndexError outside -len..len-1.
PyInRange(l, row) == row >= 0 - Len(l) /\ row < Len(l)

PyPos(l, row) == IF row < 0 THEN row + Len(l) + 1 ELSE row + 1

PyGet(l, row) == l[PyPos(l, row)]

PyDel(l, row) == SubSeq(l, 1, PyPos(l, row) - 1) \o SubSeq(l, PyPos(l, row) + 1, Len(l))

\* list.remove(x): deletes the first occurrence.
PyRemove(l, x) == PyDel(l, PyIndex(l, x))

\* ------------------------------------------------------------- providers
\* The ItemData each item was built with: its column_count(), or -1 when the
\* item was built with data None (the root of every test).  Items of one
\* tree may differ in shape; every provider has at least one column.
ItemColumns(n) == IF n = RootItem THEN 0 - 1 ELSE 1 + (n % 2)

\* Whether the item's ListItemData was built with editable=True; providers of
\* both kinds are in every tree.
ItemEditable(n) == n # RootItem /\ n % 2 = 0

\* ListItemData.flags(column) of the item's provider
ListItemData_flags(n, column) ==
    {"ItemIsEnabled", "ItemIsSelectable"}
        \cup (IF ItemEditable(n) THEN {"ItemIsEditable"} ELSE {})

\* ---------------------------------------------------------------- handles
QModelIndex == [valid |-> FALSE, row |-> 0 - 1, column |-> 0 - 1, ptr |-> None]

createIndex(row, column, item) == [valid |-> TRUE, row |-> row, column |-> column, ptr |-> item]

\* The heap a call starts from: the items' links, no signal emitted yet.
Heap == [_parent |-> _parent, childItems |-> childItems, _model |-> _model,
         _list |-> _list, events |-> <<>>, err |-> "ok"]

Ok(s) == s.err = "ok"

Raise(s, e) == [s EXCEPT !.err = e]

\* ------------------------------------------------------------- TreeItem
\* set_model assigns, then recurses into the children in order.  On a cyclic
\* structure the recursion never returns: the interpreter ends it with a
\* RuntimeError after every item on the way has been assigned.
RECURSIVE set_model_item(_, _, _, _)
RECURSIVE set_model_children(_, _, _, _, _)
set_model_item(s, item, model, path) ==
    IF ~Ok(s) THEN s
    ELSE IF item \in path THEN Raise(s, "RuntimeError")
    ELSE set_model_children([s EXCEPT !._model[item] = model], item, 1, model,
                            path \cup {item})

set_model_children(s, item, i, model, path) ==
    IF ~Ok(s) \/ i > Len(s.childItems[item]) THEN s
    ELSE set_model_children(set_model_item(s, s.childItems[item][i], model, path),
                            item, i + 1, model, path)

set_model(s, item, model) == set_model_item(s, item, model, {})

child_count(s, item) == Len(s.childItems[item])

\* child(row): [val, err]; self.childItems[row] with Python's indexing.
TreeItem_child(s, item, r) ==
    IF PyInRange(s.childItems[item], r)
    THEN [val |-> PyGet(s.childItems[item], r), err |-> "ok"]
    ELSE [val |-> None, err |-> "IndexError"]

\* column_count() asking the item's own provider whatever its children.
column_count_own(s, item) ==
    [val |-> IF _data[item] = "None" THEN 0 ELSE Len(s._list[item]), err |-> "ok"]

\* column_count: [val, err]; the first child's provider decides when there
\* are children, and a child built without provider raises AttributeError.
column_count(s, item) ==
    IF child_count(s, item) > 0
    THEN IF _data[s.childItems[item][1]] = "None"
         THEN [val |-> 0, err |-> "AttributeError"]
         ELSE [val |-> Len(s._list[s.childItems[item][1]]), err |-> "ok"]
    ELSE [val |-> IF _data[item] = "None" THEN 0 ELSE Len(s._list[item]), err |-> "ok"]

\* row(): [val, err]
row(s, item) ==
    IF s._parent[item] = None THEN [val |-> 0, err |-> "ok"]
    ELSE IF PyIndex(s.childItems[s._parent[item]], item) < 0
         THEN [val |-> 0, err |-> "ValueError"]
         ELSE [val |-> PyIndex(s.childItems[s._parent[item]], item), err |-> "ok"]

\* ------------------------------------------------------------ TreeModel
\* rowCount() without the test of the parent's column.
rowCount_any_column(s, parent) ==
    IF ~parent.valid THEN child_count(s, _root)
    ELSE child_count(s, parent.ptr)

\* rowCount(parent)
rowCount(s, parent) ==
    IF parent.column > 0 THEN 0
    ELSE IF ~parent.valid THEN child_count(s, _root)
    ELSE child_count(s, parent.ptr)

\* columnCount(parent): [val, err]
columnCount(s, parent) ==
    IF parent.valid THEN column_count(s, parent.ptr) ELSE column_count(s, _root)

\* hasIndex() testing the row only.
hasIndex_rows_only(s, r, c, parent) ==
    IF r < 0 THEN [val |-> FALSE, err |-> "ok"]
    ELSE [val |-> r < rowCount(s, parent), err |-> "ok"]

\* QAbstractItemModel::hasIndex: [val, err]; columnCount is asked only when
\* the row passed.
hasIndex(s, r, c, parent) ==
    IF r < 0 \/ c < 0 THEN [val |-> FALSE, err |-> "ok"]
    ELSE IF ~(r < rowCount(s, parent)) THEN [val |-> FALSE, err |-> "ok"]
    ELSE [val |-> c < columnCount(s, parent).val, err |-> columnCount(s, parent).err]

\* index() addressing parentItem.child(0) whatever the row.
index_first_child(s, r, c, parent) ==
    LET h == hasIndex(s, r, c, parent)
        parentItem == IF parent.valid THEN parent.ptr ELSE _root
    IN  IF h.err # "ok" THEN [val |-> QModelIndex, err |-> h.err]
        ELSE IF ~h.val THEN [val |-> QModelIndex, err |-> "ok"]
        ELSE [val |-> createIndex(r, c, s.childItems[parentItem][1]), err |-> "ok"]

\* index(row, column, parent): [val, err]
index(s, r, c, parent) ==
    LET h == hasIndex(s, r, c, parent)
        parentItem == IF parent.valid THEN parent.ptr ELSE _root
    IN  IF h.err # "ok" THEN [val |-> QModelIndex, err |-> h.err]
        ELSE IF ~h.val THEN [val |-> QModelIndex, err |-> "ok"]
        ELSE [val |-> createIndex(r, c, s.childItems[parentItem][r + 1]), err |-> "ok"]

\* index_of_item, first loop: the ancestors of item below the root, nearest
\* first.  found = FALSE is the "return QModelIndex()" inside the loop; a
\* parent chain that closes on itself keeps the loop running for ever.
RECURSIVE collect_parents(_, _, _, _)
collect_parents(s, i, parents, seen) ==
    LET parent == s._parent[i]
    IN  IF parent = _root THEN [val |-> parents, found |-> TRUE, err |-> "ok"]
        ELSE IF parent = None THEN [val |-> parents, found |-> FALSE, err |-> "ok"]
        ELSE IF parent \in seen THEN [val |-> parents, found |-> FALSE, err |-> "NoReturn"]
        ELSE collect_parents(s, parent, Append(parents, parent), seen \cup {parent})

\* index_of_item, second loop: for treeitem in reversed(parents), from
\* position k down to 1: [val, err]
RECURSIVE descend(_, _, _, _)
descend(s, parents, k, idx) ==
    IF k = 0 \/ idx.err # "ok" THEN idx
    ELSE LET treeitem == parents[k]
             r == PyIndex(s.childItems[s._parent[treeitem]], treeitem)
         IN  IF r < 0 THEN [val |-> QModelIndex, err |-> "ValueError"]
             ELSE descend(s, parents, k - 1, index(s, r, 0, idx.val))

\* index_of_item() asking index() for column 0 whatever column was requested.
index_of_item_column0(s, item, column) ==
    IF item = _root THEN [val |-> QModelIndex, err |-> "ok"]
    ELSE LET ps == collect_parents(s, item, <<>>, {item})
             top == descend(s, ps.val, Len(ps.val), [val |-> QModelIndex, err |-> "ok"])
             r == PyIndex(s.childItems[s._parent[item]], item)
         IN  IF ps.err # "ok" THEN [val |-> QModelIndex, err |-> ps.err]
             ELSE IF ~ps.found THEN [val |-> QModelIndex, err |-> "ok"]
             ELSE IF top.err # "ok" THEN top
             ELSE IF r < 0 THEN [val |-> QModelIndex, err |-> "ValueError"]
             ELSE index(s, r, 0, top.val)

\* index_of_item(item, column): [val, err]
index_of_item(s, item, column) ==
    IF item = _root THEN [val |-> QModelIndex, err |-> "ok"]
    ELSE LET ps == collect_parents(s, item, <<>>, {item})
             top == descend(s, ps.val, Len(ps.val), [val |-> QModelIndex, err |-> "ok"])
             r == PyIndex(s.childItems[s._parent[item]], item)
         IN  IF ps.err # "ok" THEN [val |-> QModelIndex, err |-> ps.err]
             ELSE IF ~ps.found THEN [val |-> QModelIndex, err |-> "ok"]
             ELSE IF top.err # "ok" THEN top
             ELSE IF r < 0 THEN [val |-> QModelIndex, err |-> "ValueError"]
             ELSE index(s, r, column, top.val)

\* A signal of the model as a connected slot sees it: its arguments and the
\* items' links at the moment it is emitted.
emit(s, signal, parent, first) ==
    [s EXCEPT !.events = Append(@, [signal |-> signal, parent |-> parent, first |-> first,
                                    last |-> first, childItems |-> s.childItems,
                                    _parent |-> s._parent, _model |-> s._model])]

\* insertRow() calling beginInsertRows only after the item was put in.
insertRow_late(s, r, item, parent) ==
    LET s1 == set_model(s, item, TheModel)
        parentitem == IF parent.valid THEN parent.ptr ELSE _root
        s2 == [s1 EXCEPT !._parent[item] = parentitem,
                         !.childItems[parentitem] = PyInsert(@, r, item)]
        s3 == emit(s2, "rowsAboutToBeInserted", parent, r)
    IN  IF ~Ok(s1) THEN s1 ELSE emit(s3, "rowsInserted", parent, r)

\* insertRow() appending the item instead of inserting it at row.
insertRow_append(s, r, item, parent) ==
    LET s1 == set_model(s, item, TheModel)
        parentitem == IF parent.valid THEN parent.ptr ELSE _root
        s2 == emit(s1, "rowsAboutToBeInserted", parent, r)
        s3 == [s2 EXCEPT !._parent[item] = parentitem,
                         !.childItems[parentitem] = Append(@, item)]
    IN  IF ~Ok(s1) THEN s1 ELSE emit(s3, "rowsInserted", parent, r)

\* insertRow(row, item, parent)
insertRow(s, r, item, parent) ==
    LET s1 == set_model(s, item, TheModel)
        parentitem == IF parent.valid THEN parent.ptr ELSE _root
        s2 == emit(s1, "rowsAboutToBeInserted", parent, r)
        s3 == [s2 EXCEPT !._parent[item] = parentitem,
                         !.childItems[parentitem] = PyInsert(@, r, item)]
    IN  IF ~Ok(s1) THEN s1 ELSE emit(s3, "rowsInserted", parent, r)

\* removeRow() leaving the removed item's _parent as it was.
removeRow_keeps_parent(s, r, parent) ==
    LET parentitem == IF parent.valid THEN parent.ptr ELSE _root
        s1 == emit(s, "rowsAboutToBeRemoved", parent, r)
        item == PyGet(s.childItems[parentitem], r)
        s2 == set_model(s1, item, None)
        s3 == [s2 EXCEPT !.childItems[parentitem] = PyDel(@, r)]
    IN  IF ~PyInRange(s.childItems[parentitem], r) THEN Raise(s1, "IndexError")
        ELSE IF ~Ok(s2) THEN s2
        ELSE emit(s3, "rowsRemoved", parent, r)

\* removeRow(row, parent)
removeRow(s, r, parent) ==
    LET parentitem == IF parent.valid THEN parent.ptr ELSE _root
        s1 == emit(s, "rowsAboutToBeRemoved", parent, r)
        item == PyGet(s.childItems[parentitem], r)
        s2 == set_model(s1, item, None)
        s3 == [s2 EXCEPT !._parent[item] = None,
                         !.childItems[parentitem] = PyDel(@, r)]
    IN  IF ~PyInRange(s.childItems[parentitem], r) THEN Raise(s1, "IndexError")
        ELSE IF ~Ok(s2) THEN s2
        ELSE emit(s3, "rowsRemoved", parent, r)

\* add_child() on an item with a model inserting at row 0 instead of the end.
add_child_row0(s, self, child) ==
    LET s1 == set_model(s, child, s._model[self])
        parentindex == index_of_item(s1, self, 0)
    IN  IF ~Ok(s1) THEN s1
        ELSE IF s1._model[self] # None
        THEN IF parentindex.err # "ok" THEN Raise(s1, parentindex.err)
             ELSE insertRow(s1, 0, child, parentindex.val)
        ELSE [s1 EXCEPT !._parent[child] = self,
                        !.childItems[self] = Append(@, child)]

\* add_child() on an item without model appending without child._parent = self.
add_child_no_parent(s, self, child) ==
    LET s1 == set_model(s, child, s._model[self])
        parentindex == index_of_item(s1, self, 0)
    IN  IF ~Ok(s1) THEN s1
        ELSE IF s1._model[self] # None
        THEN IF parentindex.err # "ok" THEN Raise(s1, parentindex.err)
             ELSE insertRow(s1, Len(s1.childItems[self]), child, parentindex.val)
        ELSE [s1 EXCEPT !.childItems[self] = Append(@, child)]

\* add_child(child)
add_child(s, self, child) ==
    LET s1 == set_model(s, child, s._model[self])
        parentindex == index_of_item(s1, self, 0)
    IN  IF ~Ok(s1) THEN s1
        ELSE IF s1._model[self] # None
        THEN IF parentindex.err # "ok" THEN Raise(s1, parentindex.err)
             ELSE insertRow(s1, Len(s1.childItems[self]), child, parentindex.val)
        ELSE [s1 EXCEPT !._parent[child] = self,
                        !.childItems[self] = Append(@, child)]

\* remove_child(child)
remove_child(s, self, child) ==
    LET s1 == set_model(s, child, None)
        r == PyIndex(s1.childItems[self], child)
        parentindex == index_of_item(s1, self, 0)
    IN  IF ~Ok(s1) THEN s1
        ELSE IF r < 0 THEN Raise(s1, "ValueError")
        ELSE IF s1._model[self] # None
        THEN IF parentindex.err # "ok" THEN Raise(s1, parentindex.err)
             ELSE removeRow(s1, r, parentindex.val)
        ELSE [s1 EXCEPT !.childItems[self] = PyRemove(@, child)]

\* set_parent(parent)
set_parent(s, self, parent) ==
    LET s1 == IF s._parent[self] # None THEN remove_child(s, s._parent[self], self) ELSE s
        s2 == [s1 EXCEPT !._parent[self] = parent]
    IN  IF s._parent[self] = parent THEN s
        ELSE IF ~Ok(s1) THEN s1
        ELSE IF parent # None THEN add_child(s2, parent, self)
        ELSE s2

\* Qt.DisplayRole and Qt.EditRole.
DisplayRole == 0
EditRole == 2

\* The two roles the module adds on Qt.UserRole.
INTERNAL_OBJ_ROLE == 32
TREEITEM_ROLE == 33

\* ListItemData.data(column, role): the element itself when its type is
\* int, float or NoneType, str() of it otherwise; None for another role.
ListItemData_data(l, column, role) ==
    IF ~(column >= 0 /\ column < Len(l)) THEN PyNone
    ELSE IF role = DisplayRole
         THEN IF l[column + 1].type \in {"int", "float", "NoneType"}
              THEN l[column + 1]
              ELSE str(l[column + 1])
    ELSE PyNone

\* What a data() call hands back: a Python value (None included), the item
\* itself, or the provider's internal_data(), which is its list.
NoData == [kind |-> "value", item |-> None, val |-> PyNone]

\* data() answering the two roles of this module only for a column of the
\* provider.
TreeItem_data_checks_column(s, item, column, role) ==
    IF _data[item] # "None" /\ column >= 0 /\ column < Len(s._list[item])
    THEN IF role = TREEITEM_ROLE THEN [NoData EXCEPT !.kind = "item", !.item = item]
         ELSE IF role = INTERNAL_OBJ_ROLE
              THEN [NoData EXCEPT !.kind = "internal_data", !.item = item]
         ELSE [NoData EXCEPT !.val = ListItemData_data(s._list[item], column, role)]
    ELSE NoData

\* TreeItem.data(column, role)
TreeItem_data(s, item, column, role) ==
    IF role = TREEITEM_ROLE THEN [NoData EXCEPT !.kind = "item", !.item = item]
    ELSE IF role = INTERNAL_OBJ_ROLE /\ _data[item] # "None"
         THEN [NoData EXCEPT !.kind = "internal_data", !.item = item]
    ELSE IF _data[item] # "None" /\ (column >= 0 \/ column < Len(s._list[item]))
         THEN [NoData EXCEPT !.val = ListItemData_data(s._list[item], column, role)]
    ELSE NoData

\* TreeModel.data(index, role)
TreeModel_data(s, idx, role) ==
    IF ~idx.valid THEN NoData ELSE TreeItem_data(s, idx.ptr, idx.column, role)

\* Qt.Horizontal and Qt.Vertical.
Horizontal == 1
Vertical == 2
Orientations == {Horizontal, Vertical}

\* headerData() without the fallback to the section number.
headerData_no_fallback(s, section, orientation, role) ==
    IF orientation = Horizontal THEN TreeItem_data(s, _root, section, role)
    ELSE IF orientation = Vertical /\ role = DisplayRole
         THEN [NoData EXCEPT !.val = str(PyInt(section + 1))]
    ELSE NoData

\* headerData() numbering the vertical header for every role.
headerData_every_role(s, section, orientation, role) ==
    LET d == TreeItem_data(s, _root, section, role)
    IN  IF orientation = Horizontal
        THEN IF d = NoData /\ role = DisplayRole
             THEN [NoData EXCEPT !.val = str(PyInt(section + 1))]
             ELSE d
        ELSE [NoData EXCEPT !.val = str(PyInt(section + 1))]

\* TreeModel.headerData(section, orientation, role): what data() hands back,
\* or the string of section + 1.
headerData(s, section, orientation, role) ==
    LET d == TreeItem_data(s, _root, section, role)
    IN  IF orientation = Horizontal
        THEN IF d = NoData /\ role = DisplayRole
             THEN [NoData EXCEPT !.val = str(PyInt(section + 1))]
             ELSE d
        ELSE IF orientation = Vertical /\ role = DisplayRole
             THEN [NoData EXCEPT !.val = str(PyInt(section + 1))]
        ELSE NoData

\* parent() handing on the column of the index it was given.
TreeModel_parent_keeps_column(s, idx) ==
    LET parentItem == s._parent[idx.ptr]
    IN  IF ~idx.valid THEN [val |-> QModelIndex, err |-> "ok"]
        ELSE IF parentItem = _root THEN [val |-> QModelIndex, err |-> "ok"]
        ELSE IF parentItem = None THEN [val |-> QModelIndex, err |-> "AttributeError"]
        ELSE IF row(s, parentItem).err # "ok"
             THEN [val |-> QModelIndex, err |-> row(s, parentItem).err]
        ELSE [val |-> createIndex(row(s, parentItem).val, idx.column, parentItem),
              err |-> "ok"]

\* TreeModel.parent(index): [val, err]; an item without parent has no row().
TreeModel_parent(s, idx) ==
    LET parentItem == s._parent[idx.ptr]
    IN  IF ~idx.valid THEN [val |-> QModelIndex, err |-> "ok"]
        ELSE IF parentItem = _root THEN [val |-> QModelIndex, err |-> "ok"]
        ELSE IF parentItem = None THEN [val |-> QModelIndex, err |-> "AttributeError"]
        ELSE IF row(s, parentItem).err # "ok"
             THEN [val |-> QModelIndex, err |-> row(s, parentItem).err]
        ELSE [val |-> createIndex(row(s, parentItem).val, 0, parentItem), err |-> "ok"]

\* The roles a caller passes: the two ListItemData knows and another one.
Roles == {DisplayRole, EditRole, TREEITEM_ROLE}

\* ListItemData.set_data() taking the value for every role.
ListItemData_set_data_any_role(l, column, value, role) ==
    IF ~(column >= 0 /\ column < Len(l)) THEN [val |-> FALSE, list |-> l]
    ELSE [val |-> TRUE, list |-> [l EXCEPT ![column + 1] = value]]

\* ListItemData.set_data(column, value, role) on the list l: [val, list]
ListItemData_set_data(l, column, value, role) ==
    IF ~(column >= 0 /\ column < Len(l)) THEN [val |-> FALSE, list |-> l]
    ELSE IF role = EditRole \/ role = DisplayRole
         THEN [val |-> TRUE, list |-> [l EXCEPT ![column + 1] = value]]
    ELSE [val |-> FALSE, list |-> l]

\* to_index(column): [val, err]; None (here the invalid handle) without model.
to_index(s, item, column) ==
    IF s._model[item] # None THEN index_of_item(s, item, column)
    ELSE [val |-> QModelIndex, err |-> "ok"]

\* What TreeItem.set_data(column, value, role) returns.
set_data_returns(s, item, column, value, role) ==
    IF _data[item] = "None" \/ column >= Len(s._list[item]) THEN FALSE
    ELSE ListItemData_set_data(s._list[item], column, value, role).val

\* set_data() emitting dataChanged whatever the provider answered.
set_data_always_emits(s, item, column, value, role) ==
    LET r == ListItemData_set_data(s._list[item], column, value, role)
        s1 == [s EXCEPT !._list[item] = r.list]
        idx == to_index(s1, item, column)
    IN  IF _data[item] = "None" \/ column >= Len(s._list[item]) THEN s
        ELSE IF idx.err # "ok" THEN Raise(s1, idx.err)
        ELSE IF s1._model[item] # None THEN emit(s1, "dataChanged", idx.val, idx.val.row)
        ELSE s1

\* TreeItem.set_data(column, value, role): the heap it leaves; the signal
\* dataChanged(index, index) is recorded with the index as its parent field.
set_data(s, item, column, value, role) ==
    LET r == ListItemData_set_data(s._list[item], column, value, role)
        s1 == [s EXCEPT !._list[item] = r.list]
        idx == to_index(s1, item, column)
    IN  IF _data[item] = "None" \/ column >= Len(s._list[item]) THEN s
        ELSE IF idx.err # "ok" THEN Raise(s1, idx.err)
        ELSE IF r.val /\ s1._model[item] # None
             THEN emit(s1, "dataChanged", idx.val, idx.val.row)
        ELSE s1

\* TreeItem(data, parent): the new item names its parent, then asks it to
\* add the item.
TreeItem(s, self, parent) ==
    LET s1 == [s EXCEPT !._parent[self] = parent]
    IN  IF parent # None THEN add_child(s1, parent, self) ELSE s1

\* ------------------------------------------------------------ the calls
Range(l) == {l[i] : i \in 1..Len(l)}

RECURSIVE Closure(_, _, _)
Closure(kids, frontier, seen) ==
    IF frontier \subseteq seen THEN seen
    ELSE Closure(kids, UNION {Range(kids[n]) : n \in frontier}, seen \cup frontier)

\* item and everything below it through the children lists.
Subtree(kids, item) == Closure(kids, {item}, {})

\* The items the model shows: the root and everything below it.
InTree == IF _root = None THEN {} ELSE Subtree(childItems, _root)

\* The handles the model hands out in this state for column 0.
Issued ==
    IF _root = None THEN {QModelIndex}
    ELSE {QModelIndex} \cup
         {h.val : h \in {g \in {index_of_item(Heap, n, 0) : n \in Nodes} : g.err = "ok"}}

\* What the documentation asks of a caller: an item given a parent is not
\* somebody's child already (insertRow: "make sure it's parent is None"), is
\* not the root, and is not the new parent or one of its ancestors ("tree, not
\* graph").  The code checks none of it.
Attachable(item, newparent) ==
    /\ \A p \in Nodes : item \notin Range(childItems[p])
    /\ item # RootItem
    /\ newparent \notin Subtree(childItems, item)

\* An item as TreeItem(data) leaves it, before anything was done with it.
Pristine(item) ==
    /\ _parent[item] = None
    /\ childItems[item] = <<>>
    /\ _model[item] = None
    /\ \A p \in Nodes : item \notin Range(childItems[p])
    /\ \A c \in Nodes : _parent[c] # item

\* ------------------------------------------------------ ListCascadeView
\* A ListLevel as ListCascadeView(depth) builds it: AbstractLevel._model,
\* and the QListView's model, root index and current index.
NoLevel == [_model |-> None, model |-> None, root |-> QModelIndex, cur |-> QModelIndex]

\* The levels of the view at the start of a call, no exception raised yet;
\* nest counts the new_root emissions that are being handled at the moment
\* and hops is the highest count so far, the longest chain of emissions.
View == [lv |-> levels, err |-> "ok", nest |-> 0, hops |-> 0]

\* QAbstractItemView.setModel on level k: nothing for the model the view
\* has already; otherwise a new selection model, so no current index, and
\* no root index.
setModel(v, k, model) ==
    IF v.lv[k + 1].model = model THEN v
    ELSE [v EXCEPT !.lv[k + 1].model = model, !.lv[k + 1].root = QModelIndex,
                   !.lv[k + 1].cur = QModelIndex]

\* QAbstractItemView.setRootIndex on level k: an index of another model
\* than the view's is refused; the current index stays.
setRootIndex(v, k, idx) ==
    IF idx.valid /\ v.lv[k + 1].model = None THEN v
    ELSE [v EXCEPT !.lv[k + 1].root = idx]

\* QAbstractItemModel.hasChildren(index)
hasChildren(idx) == rowCount(Heap, idx) > 0 /\ columnCount(Heap, idx).val > 0

RECURSIVE AbstractCascadeView_set_root(_, _, _)
RECURSIVE _set_root(_, _, _)
RECURSIVE AbstractLevel_set_model(_, _, _)
RECURSIVE ListLevel_model_changed(_, _, _)
RECURSIVE ListLevel_set_root(_, _, _)
RECURSIVE ListLevel_currentChanged(_, _, _)
RECURSIVE setCurrentIndex(_, _, _)

\* new_root.emit(index) of level k: its one slot is
\* partial(self.set_root, depth + 1) of the view; the emission is over when
\* the slot returns.
new_root_emit(v, k, idx) ==
    LET v1 == [v EXCEPT !.nest = @ + 1,
                        !.hops = IF v.nest + 1 > @ THEN v.nest + 1 ELSE @]
        v2 == AbstractCascadeView_set_root(v1, k + 1, idx)
    IN  IF v.err # "ok" THEN v ELSE [v2 EXCEPT !.nest = @ - 1]

\* set_root() looking the level up without the test of depth.
AbstractCascadeView_set_root_unchecked(v, depth, idx) ==
    IF v.err # "ok" THEN v
    ELSE IF depth < Len(v.lv) THEN _set_root(v, depth, idx)
    ELSE [v EXCEPT !.err = "IndexError"]

\* AbstractCascadeView.set_root(depth, index)
AbstractCascadeView_set_root(v, depth, idx) ==
    IF v.err # "ok" THEN v
    ELSE IF depth < Len(v.lv) THEN _set_root(v, depth, idx)
    ELSE v

\* AbstractLevel._set_root(index) of level k: self.model is the bound method
\* QListView.model, which never equals index.model(), so that a valid index
\* always sets the model again.
_set_root(v, k, idx) ==
    IF ~idx.valid THEN ListLevel_set_root(v, k, idx)
    ELSE ListLevel_set_root(AbstractLevel_set_model(v, k, TheModel), k, idx)

\* AbstractLevel.set_model(model) of level k
AbstractLevel_set_model(v, k, model) ==
    ListLevel_model_changed(
        new_root_emit([v EXCEPT !.lv[k + 1]._model = model], k, QModelIndex), k, model)

\* ListLevel.model_changed(model) of level k
ListLevel_model_changed(v, k, model) ==
    IF v.err # "ok" THEN v
    ELSE IF model # None
         THEN setCurrentIndex(setModel(v, k, model), k,
                              index(Heap, 0, 0, QModelIndex).val)
    ELSE setModel(v, k, model)

\* ListLevel.set_root(index) of level k
ListLevel_set_root(v, k, idx) ==
    IF v.err # "ok" THEN v
    ELSE IF ~idx.valid
         THEN new_root_emit(setCurrentIndex(setModel(v, k, None), k, QModelIndex),
                            k, QModelIndex)
    ELSE IF hasChildren(idx)
         THEN new_root_emit(
                  setCurrentIndex(setRootIndex(v, k, idx), k, index(Heap, 0, 0, idx).val),
                  k, index(Heap, 0, 0, idx).val)
    ELSE new_root_emit(setRootIndex(v, k, idx), k, QModelIndex)

\* ListLevel.currentChanged(current, prev) of level k; self.model() is None
\* for a view without model.
ListLevel_currentChanged(v, k, current) ==
    IF v.err # "ok" THEN v
    ELSE IF v.lv[k + 1].model = None THEN [v EXCEPT !.err = "AttributeError"]
    ELSE new_root_emit(v, k, index(Heap, current.row, 0,
                                   TreeModel_parent(Heap, current).val).val)

\* QAbstractItemView.setCurrentIndex(index) of level k: the selection model
\* takes the index and, when it is another one than before, calls
\* currentChanged.
setCurrentIndex(v, k, idx) ==
    IF v.err # "ok" THEN v
    ELSE IF idx = v.lv[k + 1].cur THEN v
    ELSE ListLevel_currentChanged([v EXCEPT !.lv[k + 1].cur = idx], k, idx)

\* ------------------------------------------------------- WidgetDelegate
\* The cells of a view the delegate is asked to edit, one per row.
EditIndexes == {createIndex(r, 0, None) : r \in 0..(MaxKids - 1)}

\* The delegate at the start of a call: _edit_widgets maps an index to its
\* editor (None: no entry), and editors lists the editor widgets in the
\* order they were made, each with the index its destroyed signal is bound
\* to and whether Qt has destroyed it.
Delegate == [_edit_widgets |-> _edit_widgets, editors |-> editors, events |-> <<>>,
             err |-> "ok"]

\* A signal of the delegate with its editor, and whether the editor is
\* registered at that moment.
emit_editor(d, signal, idx) ==
    [d EXCEPT !.events = Append(@, [signal |-> signal, editor |-> d._edit_widgets[idx],
                                   registered |-> d._edit_widgets[idx] # None])]

\* commit_close_editor(index)
commit_close_editor(d, idx) ==
    IF ~Ok(d) THEN d
    ELSE IF d._edit_widgets[idx] = None THEN Raise(d, "KeyError")
    ELSE [emit_editor(emit_editor(d, "commitData", idx), "closeEditor", idx)
              EXCEPT !._edit_widgets[idx] = None]

\* self._edit_widgets.keys(), by row.
RECURSIVE keys(_, _)
keys(d, r) ==
    IF r >= MaxKids THEN <<>>
    ELSE IF d._edit_widgets[createIndex(r, 0, None)] # None
         THEN <<createIndex(r, 0, None)>> \o keys(d, r + 1)
    ELSE keys(d, r + 1)

\* for k in reversed(ks): self.commit_close_editor(k), from position i down.
RECURSIVE close_each(_, _, _)
close_each(d, ks, i) ==
    IF i = 0 THEN d ELSE close_each(commit_close_editor(d, ks[i]), ks, i - 1)

\* close_editors()
close_editors(d) == close_each(d, keys(d, 0), Len(keys(d, 0)))

\* createEditor() registering the new editor next to the ones there are.
createEditor_keeps_editors(d, idx, e) ==
    IF e THEN [d EXCEPT !._edit_widgets[idx] = Len(d.editors) + 1,
                        !.editors = Append(@, [index |-> idx, alive |-> TRUE])]
    ELSE d

\* createEditor(parent, option, index); e tells whether create_editor_widget
\* of the subclass returns an editor or None.
createEditor(d, idx, e) ==
    LET d1 == close_editors(d)
    IN  IF ~Ok(d1) THEN d1
        ELSE IF e THEN [d1 EXCEPT !._edit_widgets[idx] = Len(d.editors) + 1,
                                  !.editors = Append(@, [index |-> idx, alive |-> TRUE])]
        ELSE d1

\* edit_widget(index)
edit_widget(d, idx) == d._edit_widgets[idx]

\* editor_destroyed(index): the entry of the index goes, if there is one.
editor_destroyed(d, idx) == [d EXCEPT !._edit_widgets[idx] = None]

Signals(s) == [i \in 1..Len(s.events) |-> s.events[i].signal]

\* The call leaves the heap as s; no children list outgrows the bound.
Becomes(s) ==
    /\ \A n \in Nodes : Len(s.childItems[n]) <= MaxKids
    /\ _parent' = s._parent
    /\ childItems' = s.childItems
    /\ _model' = s._model
    /\ _list' = s._list
    /\ _data' = _data
    /\ levels' = levels
    /\ UNCHANGED <<_edit_widgets, editors>>
    /\ events' = Signals(s)
    /\ err' = s.err

\* misuse counts the calls from the first one that breaks the caller's side
\* of the contract; the search follows at most MaxMisuse of them.
Counted(supported) ==
    IF misuse = 0 /\ supported THEN misuse' = 0
    ELSE misuse < MaxMisuse /\ misuse' = misuse + 1

Init ==
    /\ _parent = [n \in Nodes |-> None]
    /\ childItems = [n \in Nodes |-> <<>>]
    /\ _model = [n \in Nodes |-> None]
    /\ _data = [n \in Nodes |-> IF ItemColumns(n) < 0 THEN "None" ELSE "ListItemData"]
    /\ _list = [n \in Nodes |-> [c \in 1..ItemColumns(n) |-> PyInt(0)]]
    /\ _root = None
    /\ levels = [k \in 1..Depth |-> NoLevel]
    /\ _edit_widgets = [i \in EditIndexes |-> None]
    /\ editors = <<>>
    /\ events = <<>>
    /\ err = "ok"
    /\ call = "none"
    /\ misuse = 0

\* TreeModel(root)
NewModel ==
    /\ _root = None
    /\ Counted(_parent[RootItem] = None)
    /\ _root' = RootItem
    /\ Becomes(set_model(Heap, RootItem, TheModel))
    /\ call' = "TreeModel"

\* self = TreeItem(data, parent), for an item not used so far; the parent
\* is an item that exists already.
Construct(self, parent) ==
    /\ Pristine(self)
    /\ self # RootItem
    /\ parent # self
    /\ Counted(TRUE)
    /\ Becomes(TreeItem(Heap, self, parent))
    /\ call' = "TreeItem"
    /\ UNCHANGED _root

\* self.add_child(child)
AddChild(self, child) ==
    /\ Counted(Attachable(child, self))
    /\ Becomes(add_child(Heap, self, child))
    /\ call' = "add_child"
    /\ UNCHANGED _root

\* self.remove_child(child)
RemoveChild(self, child) ==
    /\ Counted(TRUE)
    /\ Becomes(remove_child(Heap, self, child))
    /\ call' = "remove_child"
    /\ UNCHANGED _root

\* self.set_parent(parent)
SetParent(self, parent) ==
    /\ Counted(self # RootItem /\ (parent = None \/ parent \notin Subtree(childItems, self)))
    /\ Becomes(set_parent(Heap, self, parent))
    /\ call' = "set_parent"
    /\ UNCHANGED _root

\* model.insertRow(row, item, parent)
InsertRow(r, item, parent) ==
    /\ _root # None
    /\ Counted(Attachable(item, IF parent.valid THEN parent.ptr ELSE _root))
    /\ Becomes(insertRow(Heap, r, item, parent))
    /\ call' = "insertRow"
    /\ UNCHANGED _root

\* model.removeRow(row, parent)
RemoveRow(r, parent) ==
    /\ _root # None
    /\ Counted(TRUE)
    /\ Becomes(removeRow(Heap, r, parent))
    /\ call' = "removeRow"
    /\ UNCHANGED _root

\* item.set_data(column, value, role)
SetData(item, column, value, role) ==
    /\ Counted(TRUE)
    /\ Becomes(set_data(Heap, item, column, value, role))
    /\ call' = "set_data"
    /\ UNCHANGED _root

\* The call left the view as v and the items as they were.
Shows(v) ==
    /\ levels' = v.lv
    /\ err' = v.err
    /\ events' = <<>>
    /\ UNCHANGED <<_parent, childItems, _model, _data, _list, _root, misuse>>
    /\ UNCHANGED <<_edit_widgets, editors>>

\* view.model = model, on a view that has none yet
AssignModel ==
    /\ _root # None
    /\ levels[1]._model = None
    /\ Shows(AbstractLevel_set_model(View, 0, TheModel))
    /\ call' = "ListCascadeView.model"

\* The user makes row r of level k its current item:
\* level.setCurrentIndex(model.index(r, 0, level.rootIndex()))
SetCurrent(k, r) ==
    /\ levels[k + 1].model # None
    /\ index(Heap, r, 0, levels[k + 1].root).val.valid
    /\ Shows(setCurrentIndex(View, k, index(Heap, r, 0, levels[k + 1].root).val))
    /\ call' = "setCurrentIndex"

\* The call left the delegate as d and everything else as it was.
Edits(d) ==
    /\ _edit_widgets' = d._edit_widgets
    /\ editors' = d.editors
    /\ events' = Signals(d)
    /\ err' = d.err
    /\ UNCHANGED <<_parent, childItems, _model, _data, _list, _root, levels, misuse>>

\* The view asks for an editor: delegate.createEditor(parent, option, index)
CreateEditor(idx, e) ==
    /\ Len(editors) < MaxEditors
    /\ Edits(createEditor(Delegate, idx, e))
    /\ call' = "createEditor"

\* delegate.commit_close_editor(index)
CommitCloseEditor(idx) ==
    /\ Edits(commit_close_editor(Delegate, idx))
    /\ call' = "commit_close_editor"

\* delegate.close_editors()
CloseEditors ==
    /\ Edits(close_editors(Delegate))
    /\ call' = "close_editors"

\* Qt destroys editor n, whenever that is after it was made: its destroyed
\* signal calls editor_destroyed(index = the index it was made for).
EditorDestroyed(n) ==
    /\ n \in 1..Len(editors)
    /\ editors[n].alive
    /\ Edits(editor_destroyed([Delegate EXCEPT !.editors[n].alive = FALSE],
                              editors[n].index))
    /\ call' = "editor_destroyed"

Next ==
    \/ NewModel
    \/ \E self \in Nodes, parent \in Nodes : Construct(self, parent)
    \/ \E self \in Nodes, child \in Nodes : AddChild(self, child)
    \/ \E self \in Nodes, child \in Nodes : RemoveChild(self, child)
    \/ \E self \in Nodes, parent \in Nodes \cup {None} : SetParent(self, parent)
    \/ \E r \in Rows, item \in Nodes, parent \in Issued : InsertRow(r, item, parent)
    \/ \E r \in Rows, parent \in Issued : RemoveRow(r, parent)

Spec == Init /\ [][Next]_vars

\* The same program driven by callers that keep their side of the contract.
Kept == misuse' = 0

NextContract ==
    \/ NewModel /\ Kept
    \/ \E self \in Nodes, parent \in Nodes : Construct(self, parent) /\ Kept
    \/ \E self \in Nodes, child \in Nodes : AddChild(self, child) /\ Kept
    \/ \E self \in Nodes, child \in Nodes : RemoveChild(self, child) /\ Kept
    \/ \E self \in Nodes, parent \in Nodes \cup {None} : SetParent(self, parent) /\ Kept
    \/ \E r \in Rows, item \in Nodes, parent \in Issued : InsertRow(r, item, parent) /\ Kept
    \/ \E r \in Rows, parent \in Issued : RemoveRow(r, parent) /\ Kept

SpecContract == Init /\ [][NextContract]_vars

\* Callers that build a tree, take items out of it and edit the items' data.
NextData ==
    \/ NewModel /\ Kept
    \/ \E self \in Nodes, parent \in Nodes : Construct(self, parent) /\ Kept
    \/ \E self \in Nodes, child \in Nodes : RemoveChild(self, child) /\ Kept
    \/ \E item \in Nodes, column \in Columns, value \in Values, role \in Roles :
           SetData(item, column, value, role) /\ Kept

SpecData == Init /\ [][NextData]_vars

\* The lists a root may be built with, of every length and of every value.
RootLists == UNION {[1..k -> PyValues] : k \in 0..MaxColumn}

\* As Init, with the root built on no provider or on a ListItemData of any
\* list: its data is what the horizontal header shows.
InitProvider ==
    /\ _parent = [n \in Nodes |-> None]
    /\ childItems = [n \in Nodes |-> <<>>]
    /\ _model = [n \in Nodes |-> None]
    /\ \E d \in {"None", "ListItemData"}, l \in RootLists :
          /\ d = "None" => l = <<>>
          /\ _data = [n \in Nodes |-> IF n = RootItem THEN d ELSE "ListItemData"]
          /\ _list = [n \in Nodes |-> IF n = RootItem THEN l
                                      ELSE [c \in 1..ItemColumns(n) |-> PyInt(0)]]
    /\ _root = None
    /\ levels = [k \in 1..Depth |-> NoLevel]
    /\ _edit_widgets = [i \in EditIndexes |-> None]
    /\ editors = <<>>
    /\ events = <<>>
    /\ err = "ok"
    /\ call = "none"
    /\ misuse = 0

\* Callers that build a tree under such a root and edit the root's data with
\* values of every type.
NextProvider ==
    \/ NewModel /\ Kept
    \/ \E self \in Nodes, parent \in Nodes : Construct(self, parent) /\ Kept
    \/ \E column \in Columns, value \in PyValues, role \in Roles :
           SetData(RootItem, column, value, role) /\ Kept

SpecProvider == InitProvider /\ [][NextProvider]_vars

\* A tree is built, a ListCascadeView takes its model, and the user moves
\* the current item of the levels about.
NextCascade ==
    \/ NewModel /\ Kept
    \/ \E self \in Nodes, parent \in Nodes :
           levels[1]._model = None /\ Construct(self, parent) /\ Kept
    \/ AssignModel
    \/ \E k \in 0..(Depth - 1), r \in 0..(MaxKids - 1) : SetCurrent(k, r)

SpecCascade == Init /\ [][NextCascade]_vars

\* A view opens, commits and closes editors through the delegate, and Qt
\* destroys the editors it closed.
NextDelegate ==
    \/ \E idx \in EditIndexes, e \in BOOLEAN : CreateEditor(idx, e)
    \/ \E idx \in EditIndexes : CommitCloseEditor(idx)
    \/ CloseEditors
    \/ \E n \in 1..MaxEditors : EditorDestroyed(n)

SpecDelegate == Init /\ [][NextDelegate]_vars

TypeOK ==
    /\ _parent \in [Nodes -> Nodes \cup {None}]
    /\ \A n \in Nodes : Len(childItems[n]) <= MaxKids /\ Range(childItems[n]) \subseteq Nodes
    /\ misuse \in 0..MaxMisuse
    /\ _data \in [Nodes -> {"None", "ListItemData"}]
    /\ \A n \in Nodes : Len(_list[n]) <= MaxColumn /\ Range(_list[n]) \subseteq PyValues
    /\ \A n \in Nodes : _data[n] = "None" => _list[n] = <<>>

\* ===================================================================
\* Claims
\* ===================================================================
ParentItem(h) == IF h.valid THEN h.ptr ELSE _root

\* ------------------------------------------------------------------- C1
\* C1 as stated: in every reachable state, for every item n under the root
\* and every requested column, index_of_item(n, column) is a valid handle
\* that addresses n, at n's position in its parent's children and at the
\* requested column.
C1_AsStated ==
    \A n \in InTree \ {_root}, c \in Columns :
        LET h == index_of_item(Heap, n, c)
        IN  /\ h.err = "ok"
            /\ h.val.valid
            /\ h.val.ptr = n
            /\ h.val.column = c
            /\ _parent[n] # None
            /\ h.val.row = PyIndex(childItems[_parent[n]], n)

\* C1 amended: for callers that keep the contract, index_of_item(n, column)
\* never raises; it is the handle (position of n in its parent's children,
\* column, n) when 0 <= column < column_count() of n's parent, and the
\* invalid handle for every other column.
C1_IndexOfItem ==
    \A n \in InTree \ {_root}, c \in Columns :
        LET h == index_of_item(Heap, n, c)
        IN  /\ _parent[n] # None
            /\ h.err = "ok"
            /\ IF c >= 0 /\ c < column_count(Heap, _parent[n]).val
               THEN h.val = createIndex(PyIndex(childItems[_parent[n]], n), c, n)
               ELSE h.val = QModelIndex

\* An item two levels below the root, second among its siblings, addressed
\* at column 1.
C1_Witness ==
    \E n \in InTree :
        /\ _parent[n] \notin {None, _root}
        /\ index_of_item(Heap, n, 1).val = createIndex(1, 1, n)

\* ------------------------------------------------------------------- C4
\* C4: in every reachable state every child's _parent is the item that
\* lists it, so no item is listed by two items or twice by one.
C4_ChildrenParent ==
    /\ \A p \in Nodes : \A i \in 1..Len(childItems[p]) : _parent[childItems[p][i]] = p
    /\ \A p, q \in Nodes : \A i \in 1..Len(childItems[p]) : \A j \in 1..Len(childItems[q]) :
           childItems[p][i] = childItems[q][j] => p = q /\ i = j

\* An item was reparented: two siblings under an item that lies under the root.
C4_Witness ==
    /\ call = "set_parent"
    /\ err = "ok"
    /\ \E p \in InTree \ {_root} : Len(childItems[p]) >= 2

\* ------------------------------------------------------------------- C5
\* C5: for every item p of the tree (the root included), every row below
\* p.child_count() and every column below p.column_count(),
\* index(row, column, index_of_item(p)) is the valid handle (row, column,
\* p.child(row)).
C5_Index ==
    \A p \in InTree :
        \A r \in 0..(child_count(Heap, p) - 1) :
            \A c \in 0..(column_count(Heap, p).val - 1) :
                LET ph == index_of_item(Heap, p, 0)
                    h == index(Heap, r, c, ph.val)
                IN  /\ ph.err = "ok"
                    /\ h.err = "ok"
                    /\ h.val = createIndex(r, c, childItems[p][r + 1])

\* An item below the root with two children and two columns to address.
C5_Witness ==
    \E p \in InTree \ {_root} :
        /\ child_count(Heap, p) >= 2
        /\ index(Heap, 1, 1, index_of_item(Heap, p, 0).val).val.valid

\* ------------------------------------------------------------------- C2
\* What each call a caller can make in this state leaves behind.
Outcomes ==
    {add_child(Heap, p, c) : p \in Nodes, c \in Nodes}
    \cup {remove_child(Heap, p, c) : p \in Nodes, c \in Nodes}
    \cup {set_parent(Heap, n, q) : n \in Nodes, q \in Nodes \cup {None}}
    \cup (IF _root = None THEN {}
          ELSE {insertRow(Heap, r, i, h) : r \in Rows, i \in Nodes, h \in Issued}
               \cup {removeRow(Heap, r, h) : r \in Rows, h \in Issued})

\* The signals of one call, each with the children lists it was emitted on:
\* an "about to" signal sees the children as they were before the call or,
\* in a call that makes two changes, as the signal before it saw them; the
\* signal after it sees them with exactly the announced row put in or taken
\* out, and the last signal sees them as the call leaves them.
Bracketed(s) ==
    \A i \in 1..Len(s.events) :
        LET e == s.events[i]
            p == ParentItem(e.parent)
        IN  /\ e.signal = "rowsAboutToBeInserted" =>
                /\ i = 1 => e.childItems[p] = childItems[p]
                /\ i > 1 => e.childItems[p] = s.events[i - 1].childItems[p]
                /\ i < Len(s.events) =>
                       /\ s.events[i + 1].signal = "rowsInserted"
                       /\ \E item \in Nodes : s.events[i + 1].childItems =
                              [e.childItems EXCEPT ![p] = PyInsert(@, e.first, item)]
            /\ e.signal = "rowsAboutToBeRemoved" =>
                /\ i = 1 => e.childItems[p] = childItems[p]
                /\ i > 1 => e.childItems[p] = s.events[i - 1].childItems[p]
                /\ i < Len(s.events) =>
                       /\ s.events[i + 1].signal = "rowsRemoved"
                       /\ PyInRange(e.childItems[p], e.first)
                       /\ s.events[i + 1].childItems =
                              [e.childItems EXCEPT ![p] = PyDel(@, e.first)]
            /\ e.signal = "rowsInserted" =>
                /\ i > 1 /\ s.events[i - 1].signal = "rowsAboutToBeInserted"
                /\ i = Len(s.events) => e.childItems[p] = s.childItems[p]
            /\ e.signal = "rowsRemoved" =>
                /\ i > 1 /\ s.events[i - 1].signal = "rowsAboutToBeRemoved"
                /\ i = Len(s.events) => e.childItems[p] = s.childItems[p]

\* A call that changes the children of an item which has a model before and
\* after it emits an "about to" signal under that item's handle.
Announced(s) ==
    \A p \in Nodes :
        (_model[p] # None /\ s._model[p] # None /\ s.childItems[p] # childItems[p]) =>
            \E i \in 1..Len(s.events) :
                /\ s.events[i].signal \in {"rowsAboutToBeInserted", "rowsAboutToBeRemoved"}
                /\ ParentItem(s.events[i].parent) = p

\* C2: whatever call changes the children of an item that has a model, the
\* "rows about to be inserted / removed" signal is emitted, on the parent's
\* children as they were before the call, the splice or deletion comes
\* next, and "rows inserted / removed" is emitted on the children as the
\* call leaves them.
C2_BeginBeforeEndAfter == \A s \in Outcomes : Announced(s) /\ Bracketed(s)

\* An item under the root was moved to another parent under the root: a
\* removal bracket, then an insertion bracket.
C2_Witness ==
    /\ call = "set_parent"
    /\ events = <<"rowsAboutToBeRemoved", "rowsRemoved",
                  "rowsAboutToBeInserted", "rowsInserted">>

\* ------------------------------------------------------------------- C3
\* C3: in every state reached by callers that keep the contract, failed
\* calls included, every item under the root has _model = the model, every
\* other item has _model = None, and an item and all its descendants agree.
C3_Owner ==
    /\ \A n \in Nodes : _model[n] = (IF n \in InTree THEN TheModel ELSE None)
    /\ \A n \in Nodes : \A d \in Subtree(childItems, n) : _model[d] = _model[n]

\* ------------------------------------------------------------------- C6
\* C6: once a call has taken an item out of the tree, a handle the model
\* issued for it (or for an item below it) before the call resolves like
\* the invalid handle: data() gives nothing, parent() the invalid handle,
\* rowCount() 0 and index() no child.
C6_StaleHandle ==
    [][\A n \in Nodes, c \in 0..MaxColumn :
          LET h == index_of_item(Heap, n, c)
          IN  (/\ call' \in {"removeRow", "remove_child", "set_parent"}
               /\ err' = "ok"
               /\ n \in InTree
               /\ n \notin InTree'
               /\ h.err = "ok"
               /\ h.val.valid)
              => /\ TreeModel_data(Heap', h.val, TREEITEM_ROLE) = NoData
                 /\ TreeModel_parent(Heap', h.val) = [val |-> QModelIndex, err |-> "ok"]
                 /\ rowCount(Heap', h.val) = 0
                 /\ index(Heap', 0, 0, h.val).val = QModelIndex]_vars

\* ------------------------------------------------------------------- C7
\* The list l with x put in at 0-based position r, 0 <= r <= Len(l).
Spliced(l, r, x) == SubSeq(l, 1, r) \o <<x>> \o SubSeq(l, r + 1, Len(l))

\* C7: insertRow(row, item, parent) with 0 <= row <= child count of the
\* parent item returns (True, the only return of the method), after which
\* the parent's children are the former ones with item at row, item's
\* _parent is the parent item (the root for the invalid handle), item and
\* everything below it have _model = the model, and no other children list
\* changed.
C7_InsertRow ==
    [][call' = "insertRow" => \A r \in Rows, item \in Nodes, h \in Issued :
          LET p == ParentItem(h)
          IN  (r >= 0 /\ r <= Len(childItems[p]) /\ InsertRow(r, item, h))
              => /\ err' = "ok"
                 /\ events' = <<"rowsAboutToBeInserted", "rowsInserted">>
                 /\ childItems'[p] = Spliced(childItems[p], r, item)
                 /\ childItems'[p][r + 1] = item
                 /\ _parent'[item] = p
                 /\ \A d \in Subtree(childItems', item) : _model'[d] = TheModel
                 /\ \A q \in Nodes \ {p} : childItems'[q] = childItems[q]]_vars

\* A row was inserted under an item that is not the root and has siblings
\* to shift.
C7_Witness ==
    /\ call = "insertRow"
    /\ err = "ok"
    /\ \E p \in InTree \ {_root} : Len(childItems[p]) >= 2

\* ------------------------------------------------------------------- C8
\* C8: removeRow(row, parent) with 0 <= row < child count of the parent item
\* returns (True), takes exactly the item at that row out of the parent's
\* children, sets its _parent to None and _model to None on it and on
\* everything below it, and leaves the _parent and the children of
\* everything below it, and every other children list, as they were.
C8_RemoveRow ==
    [][call' = "removeRow" => \A r \in Rows, h \in Issued :
          LET p == ParentItem(h)
              n == childItems[p][r + 1]
          IN  (r >= 0 /\ r < Len(childItems[p]) /\ RemoveRow(r, h))
              => /\ err' = "ok"
                 /\ events' = <<"rowsAboutToBeRemoved", "rowsRemoved">>
                 /\ childItems'[p] = SubSeq(childItems[p], 1, r) \o
                                     SubSeq(childItems[p], r + 2, Len(childItems[p]))
                 /\ _parent'[n] = None
                 /\ \A d \in Subtree(childItems, n) : _model'[d] = None
                 /\ \A d \in Subtree(childItems, n) \ {n} : _parent'[d] = _parent[d]
                 /\ \A q \in Nodes \ {p} : childItems'[q] = childItems[q]
                 /\ \A q \in Nodes \ Subtree(childItems, n) :
                        _parent'[q] = _parent[q] /\ _model'[q] = _model[q]]_vars

\* A row that has children of its own was removed and keeps them.
C8_Witness ==
    /\ call = "removeRow"
    /\ err = "ok"
    /\ \E n \in Nodes \ InTree : n # RootItem /\ _parent[n] = None /\ childItems[n] # <<>>

\* ------------------------------------------------------------------- C9
\* C9: for every parent, every item a caller may insert and every row
\* insertRow accepts, insertRow(row, item, parent) followed by
\* removeRow(row, parent) succeeds, leaves the parent's children exactly as
\* they were and the item without parent, without model and in no children
\* list.
C9_InsertThenRemove ==
    _root # None =>
        \A r \in Rows, item \in Nodes, h \in Issued :
            LET p == ParentItem(h)
                s1 == insertRow(Heap, r, item, h)
                s2 == removeRow([s1 EXCEPT !.events = <<>>], r, h)
            IN  (Attachable(item, p) /\ Ok(s1))
                => /\ Ok(s2)
                   /\ s2.childItems[p] = childItems[p]
                   /\ s2._parent[item] = None
                   /\ s2._model[item] = None
                   /\ \A q \in Nodes : item \notin Range(s2.childItems[q])

\* ------------------------------------------------------------------ C10
\* C10: insertRow(row, item, parent) with row < 0 or row > child count of
\* the parent item ends in an exception and leaves the parent's children as
\* they were.
C10_InsertOutOfRange ==
    [][call' = "insertRow" => \A r \in Rows, item \in Nodes, h \in Issued :
          LET p == ParentItem(h)
          IN  ((r < 0 \/ r > Len(childItems[p])) /\ InsertRow(r, item, h))
              => /\ err' # "ok"
                 /\ childItems'[p] = childItems[p]]_vars

\* ------------------------------------------------------------------ C11
\* C11: removeRow(row, parent) with row < 0 or row >= child count of the
\* parent item ends in an exception, and leaves every children list, every
\* _parent and every _model as they were.
C11_RemoveOutOfRange ==
    [][call' = "removeRow" => \A r \in Rows, h \in Issued :
          LET p == ParentItem(h)
          IN  ((r < 0 \/ r >= Len(childItems[p])) /\ RemoveRow(r, h))
              => /\ err' # "ok"
                 /\ childItems' = childItems
                 /\ _parent' = _parent
                 /\ _model' = _model]_vars

\* ------------------------------------------------------------------ C12
\* C12: in every reachable state, for every item and every row, child(row)
\* is the item's row-th child when 0 <= row < child_count() and raises
\* IndexError for every other row.
C12_Child ==
    \A item \in Nodes, r \in Rows :
        LET c == TreeItem_child(Heap, item, r)
        IN  IF r >= 0 /\ r < child_count(Heap, item)
            THEN c.err = "ok" /\ c.val = childItems[item][r + 1]
            ELSE c.err = "IndexError"

\* ------------------------------------------------------------------ C13
\* C13: remove_child(child) on an item whose children do not contain child
\* raises ValueError, emits no signal and leaves every children list, every
\* _parent and every _model as they were.
C13_RemoveChildNotFound ==
    [][call' = "remove_child" => \A self \in Nodes, child \in Nodes :
          (PyIndex(childItems[self], child) < 0 /\ RemoveChild(self, child))
          => /\ err' = "ValueError"
             /\ events' = <<>>
             /\ childItems' = childItems
             /\ _parent' = _parent
             /\ _model' = _model]_vars

\* ------------------------------------------------------------------ C14
\* What p.add_child(c) has to leave behind, s being the heap it returns: c
\* is appended to p's children, c._parent is p, c and everything below it
\* have p's model; when p has a model the call emitted one insertion
\* bracket for the row that was p's child count, under p's handle, and when
\* p has none it emitted nothing.
Appended(s, p, c) ==
    /\ s.err = "ok"
    /\ s.childItems[p] = Append(childItems[p], c)
    /\ s._parent[c] = p
    /\ \A d \in Subtree(childItems, c) : s._model[d] = _model[p]
    /\ IF _model[p] = None THEN s.events = <<>>
       ELSE /\ Signals(s) = <<"rowsAboutToBeInserted", "rowsInserted">>
            /\ \A i \in 1..2 :
                   /\ s.events[i].first = Len(childItems[p])
                   /\ s.events[i].last = Len(childItems[p])
                   /\ s.events[i].parent = index_of_item(Heap, p, 0).val
                   /\ ParentItem(s.events[i].parent) = p

\* C14: for every item p and every item c without parent, p.add_child(c),
\* and likewise c = TreeItem(data, p), appends c to p's children, sets
\* c._parent to p and the model of c and of everything below c to p's model,
\* with exactly one insertion bracket [n, n] under p's handle when p has a
\* model and no signal when it has none.
C14_AddChild ==
    [][/\ call' = "add_child" => \A p \in Nodes, c \in Nodes :
              (_parent[c] = None /\ AddChild(p, c))
              => /\ Appended(add_child(Heap, p, c), p, c)
                 /\ childItems'[p] = Append(childItems[p], c)
                 /\ _parent'[c] = p
       /\ call' = "TreeItem" => \A p \in Nodes, c \in Nodes :
              Construct(c, p)
              => /\ Appended(TreeItem(Heap, c, p), p, c)
                 /\ childItems'[p] = Append(childItems[p], c)
                 /\ _parent'[c] = p]_vars

\* add_child put a second child under an item that lies below the root,
\* with its bracket.
C14_Witness ==
    /\ call = "add_child"
    /\ err = "ok"
    /\ events = <<"rowsAboutToBeInserted", "rowsInserted">>
    /\ \E p \in InTree \ {_root} :
           Len(childItems[p]) >= 2 /\ _model[childItems[p][2]] = TheModel

\* ------------------------------------------------------------------ C15
\* l without its first occurrence of x; l itself when x is not in it.
Without(l, x) == IF PyIndex(l, x) < 0 THEN l ELSE PyRemove(l, x)

\* C15: n.set_parent(q) changes nothing and emits nothing when q is n's
\* _parent already; otherwise it succeeds, takes n out of its former
\* parent's children (when it had a parent), appends n to q's children
\* (when q is not None), leaves n._parent = q and n in no other children
\* list, and emits the removal bracket when the former parent has a model,
\* followed by the insertion bracket when q has one.
C15_SetParent ==
    [][call' = "set_parent" => \A n \in Nodes, q \in Nodes \cup {None} :
          SetParent(n, q)
          => IF _parent[n] = q
             THEN /\ err' = "ok"
                  /\ events' = <<>>
                  /\ childItems' = childItems
                  /\ _parent' = _parent
                  /\ _model' = _model
             ELSE /\ err' = "ok"
                  /\ _parent'[n] = q
                  /\ \A r \in Nodes \ {q} : childItems'[r] = Without(childItems[r], n)
                  /\ q # None => childItems'[q] = Append(childItems[q], n)
                  /\ events' =
                         (IF _parent[n] # None /\ _model[_parent[n]] # None
                          THEN <<"rowsAboutToBeRemoved", "rowsRemoved">> ELSE <<>>)
                         \o (IF q # None /\ _model[q] # None
                             THEN <<"rowsAboutToBeInserted", "rowsInserted">> ELSE <<>>)]_vars

\* ------------------------------------------------------------------ C16
\* The provider takes the edit: the item has a provider, the column is one
\* of its columns and the role is EditRole or DisplayRole.
Accepted(item, column, role) ==
    /\ _data[item] # "None"
    /\ column >= 0 /\ column < Len(_list[item])
    /\ role \in {EditRole, DisplayRole}

\* The handle (n's row, column, n).
CellOf(n, column) == createIndex(PyIndex(childItems[_parent[n]], n), column, n)

C17_IndexOfItemInvalid ==
    _root # None =>
        \A n \in {_root} \cup (Nodes \ InTree), c \in Columns :
            index_of_item(Heap, n, c) = [val |-> QModelIndex, err |-> "ok"]

\* ------------------------------------------------------------------ C18
\* The handles the model hands out in this state, for every column.
Handles ==
    IF _root = None THEN {QModelIndex}
    ELSE {QModelIndex} \cup
         {h.val : h \in {g \in {index_of_item(Heap, n, c) : n \in Nodes, c \in 0..MaxColumn} :
                             g.err = "ok"}}

\* C18: parent(h) never raises; it is the invalid handle when h is invalid
\* or addresses a child of the root, and otherwise the handle (row of the
\* addressed item's parent among its own siblings, 0, that parent),
\* whatever h's column; so parent(index(row, c, p)) = p for every column-0
\* handle p and every valid index(row, c, p).
C18_Parent ==
    /\ \A h \in Handles :
           LET p == TreeModel_parent(Heap, h)
               q == _parent[h.ptr]
           IN  /\ p.err = "ok"
               /\ IF ~h.valid THEN p.val = QModelIndex
                  ELSE IF q = _root THEN p.val = QModelIndex
                  ELSE /\ q # None
                       /\ _parent[q] # None
                       /\ p.val = createIndex(PyIndex(childItems[_parent[q]], q), 0, q)
    /\ \A p \in Issued, r \in Rows, c \in Columns :
           LET h == index(Heap, r, c, p)
           IN  (_root # None /\ h.err = "ok" /\ h.val.valid)
               => TreeModel_parent(Heap, h.val) = [val |-> p, err |-> "ok"]

\* A column-1 handle of an item two levels below the root whose parent is
\* the second child of the root.
C18_Witness ==
    \E n \in InTree :
        /\ index_of_item(Heap, n, 1).val.valid
        /\ TreeModel_parent(Heap, index_of_item(Heap, n, 1).val).val = createIndex(1, 0, _parent[n])

\* ------------------------------------------------------------------ C19
\* C19: index(row, column, parent) never raises, for every row and column
\* (negative ones included) and for the invalid handle or any handle the
\* model hands out; it is the invalid handle exactly when row is outside
\* 0..rowCount(parent)-1 or column is outside 0..columnCount(parent)-1, and
\* otherwise addresses the parent item's child at that row; in particular
\* index(0, 0, invalid) addresses the root's first child when it has one.
C19_IndexTotal ==
    _root # None =>
        /\ \A p \in Handles, r \in Rows, c \in Columns :
               LET h == index(Heap, r, c, p)
                   cc == columnCount(Heap, p)
               IN  /\ h.err = "ok"
                   /\ cc.err = "ok"
                   /\ IF r < 0 \/ r >= rowCount(Heap, p) \/ c < 0 \/ c >= cc.val
                      THEN h.val = QModelIndex
                      ELSE h.val = createIndex(r, c, childItems[ParentItem(p)][r + 1])
        /\ childItems[_root] # <<>> =>
               index(Heap, 0, 0, QModelIndex).val = createIndex(0, 0, childItems[_root][1])

\* An item with children addressed at column 1: index() finds its first
\* child under the column-0 handle and nothing under the column-1 handle.
C19_Witness ==
    \E n \in InTree \ {_root} :
        /\ childItems[n] # <<>>
        /\ index_of_item(Heap, n, 1).val.valid
        /\ index(Heap, 0, 0, index_of_item(Heap, n, 1).val).val = QModelIndex
        /\ index(Heap, 0, 0, index_of_item(Heap, n, 0).val).val.valid

\* ------------------------------------------------------------------ C20
\* C20: in every reachable state rowCount(h) is 0 for a handle with
\* column > 0, the addressed item's child_count() for a valid handle with
\* column 0, and the root's child_count() for the invalid handle.
C20_RowCount ==
    _root # None =>
        \A h \in Handles :
            rowCount(Heap, h) =
                (IF h.column > 0 THEN 0
                 ELSE IF h.valid THEN Len(childItems[h.ptr])
                 ELSE Len(childItems[_root]))

\* After a removal: an item that still has children, counted under its
\* column-0 handle and not under its column-1 handle.
C20_Witness ==
    /\ call = "removeRow"
    /\ err = "ok"
    /\ \E n \in InTree \ {_root} :
           /\ index_of_item(Heap, n, 1).val.valid
           /\ rowCount(Heap, index_of_item(Heap, n, 1).val) = 0
           /\ rowCount(Heap, index_of_item(Heap, n, 0).val) >= 1

\* ------------------------------------------------------------------ C21
\* C21: in every reachable state column_count() of an item never raises
\* and is the column count of the first child's provider when the item has
\* children, whatever its own provider and its other children, and
\* otherwise the column count of its own provider, 0 without provider;
\* columnCount(h) is this number for the item h addresses, and for the
\* root when h is invalid.
C21_ColumnCount ==
    /\ \A n \in Nodes :
           column_count(Heap, n) =
               [val |-> IF childItems[n] # <<>> THEN Len(_list[childItems[n][1]])
                        ELSE IF _data[n] = "None" THEN 0
                        ELSE Len(_list[n]),
                err |-> "ok"]
    /\ _root # None =>
           \A h \in Handles :
               columnCount(Heap, h) = column_count(Heap, ParentItem(h))

\* A one-column item with two children, the first of two columns and the
\* second of one; the model answers 2 under its handle.
C21_Witness ==
    \E n \in InTree \ {_root} :
        /\ Len(childItems[n]) >= 2
        /\ Len(_list[n]) = 1
        /\ Len(_list[childItems[n][1]]) = 2
        /\ Len(_list[childItems[n][2]]) = 1
        /\ index_of_item(Heap, n, 0).val.valid
        /\ columnCount(Heap, index_of_item(Heap, n, 0).val).val = 2

\* ------------------------------------------------------------------ C22
\* The roles a caller asks data for.
DataRoles == {DisplayRole, EditRole, TREEITEM_ROLE, INTERNAL_OBJ_ROLE}

\* The Python value v as a data() result.
Value(v) == [kind |-> "value", item |-> None, val |-> v]

\* C22: in every state with a model, for every section k >= 0,
\* headerData(k, Horizontal, DisplayRole) is what the root's provider
\* shows for column k (the element itself for an int or a float, str() of
\* it for any other value but None), and str(k + 1) when the root has no
\* provider, k is not one of its columns or the element is None.
C22_HeaderFallback ==
    _root # None =>
        \A k \in 0..MaxColumn :
            headerData(Heap, k, Horizontal, DisplayRole) =
                IF _data[_root] = "None" \/ k >= Len(_list[_root])
                THEN Value(PyStr(ToString(k + 1)))
                ELSE IF _list[_root][k + 1] = PyNone
                     THEN Value(PyStr(ToString(k + 1)))
                ELSE IF _list[_root][k + 1].type \in {"int", "float"}
                     THEN Value(_list[_root][k + 1])
                ELSE Value(PyStr(_list[_root][k + 1].v))

\* The root's list was just edited to hold None and then a string: section
\* 0 is numbered "1" and section 1 shows the string.
C22_Witness ==
    /\ _root # None
    /\ call = "set_data"
    /\ _list[_root] = <<PyNone, PyStr("a")>>
    /\ headerData(Heap, 0, Horizontal, DisplayRole) = Value(PyStr("1"))
    /\ headerData(Heap, 1, Horizontal, DisplayRole) = Value(PyStr("a"))

\* ------------------------------------------------------------------ C23
\* C23 as stated: headerData(section, Vertical, role) is str(section + 1)
\* for every section and every role.
C23_AsStated ==
    _root # None =>
        \A section \in Columns, role \in DataRoles :
            headerData(Heap, section, Vertical, role) =
                Value(PyStr(ToString(section + 1)))

\* C23 amended: headerData(section, Vertical, role) is str(section + 1) for
\* every section when role is DisplayRole, and None for every other role.
C23_VerticalHeader ==
    _root # None =>
        \A section \in Columns, role \in DataRoles :
            headerData(Heap, section, Vertical, role) =
                IF role = DisplayRole THEN Value(PyStr(ToString(section + 1)))
                ELSE NoData

\* A model whose root has a two-column provider and children: the vertical
\* header numbers section 1 as "2" for DisplayRole and shows nothing for
\* EditRole.
C23_Witness ==
    /\ _root # None
    /\ Len(_list[_root]) = 2
    /\ Len(childItems[_root]) >= 2
    /\ headerData(Heap, 1, Vertical, DisplayRole) = Value(PyStr("2"))
    /\ headerData(Heap, 1, Vertical, EditRole) = NoData

\* ------------------------------------------------------------------ C24
\* What data(column, DisplayRole) shows of a stored value.
Shown(value) ==
    IF value.type \in {"int", "float", "NoneType"} THEN value ELSE PyStr(value.v)

\* C24: in every reachable state, for every provider, column, value and
\* role, ListItemData.set_data(column, value, role) returns True and
\* replaces element `column` alone when 0 <= column < len(list) and role is
\* DisplayRole or EditRole, and data(column, DisplayRole) then shows the
\* value; for any other column or role it returns False and the list is as
\* it was.
C24_ListSetData ==
    \A n \in Nodes, column \in Columns, value \in PyValues, role \in DataRoles :
        _data[n] # "None" =>
            LET l == _list[n]
                r == ListItemData_set_data(l, column, value, role)
            IN  IF column >= 0 /\ column < Len(l) /\ role \in {DisplayRole, EditRole}
                THEN /\ r.val
                     /\ Len(r.list) = Len(l)
                     /\ r.list[column + 1] = value
                     /\ \A i \in 1..Len(l) : i # column + 1 => r.list[i] = l[i]
                     /\ ListItemData_data(r.list, column, DisplayRole) = Shown(value)
                ELSE /\ ~r.val
                     /\ r.list = l

\* The root's two-column list just took an edit and holds False and a long;
\* column 0 shows 'False'.
C24_Witness ==
    /\ _root # None
    /\ call = "set_data"
    /\ events = <<"dataChanged">>
    /\ _list[_root] = <<PyFalse, PyLong>>
    /\ ListItemData_data(_list[_root], 0, DisplayRole) = PyStr("False")

\* ------------------------------------------------------------------ C25
\* C25: in every reachable state, for every provider, column and role,
\* ListItemData.data(column, role) is None for a column outside
\* 0..len(list)-1 and for a role other than DisplayRole; for DisplayRole and
\* a column of the list it is the element itself when the element is an
\* integer (int or long), a float or None, and str() of it otherwise, so
\* for a bool.
C25_ListData ==
    \A n \in Nodes, column \in Columns, role \in DataRoles :
        _data[n] # "None" =>
            LET l == _list[n]
                d == ListItemData_data(l, column, role)
            IN  IF ~(column >= 0 /\ column < Len(l)) \/ role # DisplayRole
                THEN d = PyNone
                ELSE IF l[column + 1].type \in {"int", "long", "float", "NoneType"}
                     THEN d = l[column + 1]
                ELSE d = PyStr(l[column + 1].v)

\* ------------------------------------------------------------------ C26
\* C26: in every reachable state, for every item and every column (in the
\* provider's range or not), data(column, TREEITEM_ROLE) is the item
\* itself; for an item with a provider data(column, INTERNAL_OBJ_ROLE) is
\* the provider's internal_data() and data(column, role) for any other
\* role is the provider's data(column, role); for an item without provider
\* every role but TREEITEM_ROLE gives None.
C26_ItemData ==
    \A n \in Nodes, column \in Columns, role \in DataRoles :
        TreeItem_data(Heap, n, column, role) =
            IF role = TREEITEM_ROLE THEN [kind |-> "item", item |-> n, val |-> PyNone]
            ELSE IF _data[n] = "None" THEN NoData
            ELSE IF role = INTERNAL_OBJ_ROLE
                 THEN [kind |-> "internal_data", item |-> n, val |-> PyNone]
            ELSE Value(ListItemData_data(_list[n], column, role))

\* A two-column item below a root whose list starts with a string: the item
\* answers the two roles at column -1 and at a column past its list, and
\* the root shows its string.
C26_Witness ==
    /\ _root # None
    /\ _data[_root] # "None"
    /\ \E n \in InTree \ {_root} :
          /\ Len(_list[n]) = 2
          /\ TreeItem_data(Heap, n, 0 - 1, TREEITEM_ROLE).item = n
          /\ TreeItem_data(Heap, n, MaxColumn, INTERNAL_OBJ_ROLE).kind = "internal_data"
          /\ TreeItem_data(Heap, n, 1, DisplayRole) = Value(PyInt(0))
    /\ TreeItem_data(Heap, _root, 0, DisplayRole) = Value(PyStr("a"))

\* ------------------------------------------------------------------ C27
\* n is in no children list: it was taken out of one, or never put in one.
Detached(n) == n # RootItem /\ \A r \in Nodes : PyIndex(childItems[r], n) < 0

\* The step kept every edge inside the subtree of n as it was.
SubtreeKept(n) ==
    \A d \in Subtree(childItems, n) :
        /\ childItems'[d] = childItems[d]
        /\ d # n => _parent'[d] = _parent[d]

\* The step put n under p: it succeeded, n is a child of p, the subtree of
\* n is as it was, all of it has the model, and index_of_item finds every
\* item of it at its row under its parent.
Reattached(n, p) ==
    /\ err' = "ok"
    /\ _parent'[n] = p
    /\ PyIndex(childItems'[p], n) >= 0
    /\ SubtreeKept(n)
    /\ \A d \in Subtree(childItems, n) :
           /\ _model'[d] = TheModel
           /\ _parent'[d] # None
           /\ index_of_item(Heap', d, 0) =
                  [val |-> createIndex(PyIndex(childItems'[_parent'[d]], d), 0, d),
                   err |-> "ok"]

\* C27: a removeRow or remove_child that takes n out of its parent's
\* children leaves every edge inside n's subtree as it was; and for every n
\* that is in no children list and every other item p that has a model,
\* p.add_child(n), n.set_parent(p) and insertRow(row, n, handle of p) with
\* 0 <= row <= child count succeed, leave every edge inside n's subtree as
\* it was, give n and all its descendants the model, and make
\* index_of_item resolve each of them to itself at its row.
C27_Reattach ==
    [][/\ (call' \in {"removeRow", "remove_child"} /\ err' = "ok") =>
              \A n \in Nodes : (~Detached(n) /\ Detached(n)') => SubtreeKept(n)
       /\ call' = "add_child" => \A n \in Nodes, p \in Nodes :
              (Detached(n) /\ _model[p] # None /\ p # _parent[n] /\ AddChild(p, n))
              => Reattached(n, p)
       /\ call' = "set_parent" => \A n \in Nodes, p \in Nodes :
              (Detached(n) /\ _model[p] # None /\ p # _parent[n] /\ SetParent(n, p))
              => Reattached(n, p)
       /\ call' = "insertRow" => \A n \in Nodes, h \in Issued, r \in Rows :
              (/\ Detached(n)
               /\ _model[ParentItem(h)] # None
               /\ ParentItem(h) # _parent[n]
               /\ r >= 0 /\ r <= Len(childItems[ParentItem(h)])
               /\ InsertRow(r, n, h))
              => Reattached(n, ParentItem(h))]_vars

\* ------------------------------------------------------------------ C28
\* The item k parent links above n, None when the links end before.
RECURSIVE Climb(_, _)
Climb(n, k) ==
    IF n = None \/ k = 0 THEN n ELSE Climb(_parent[n], k - 1)

\* C28: in every reachable state, following _parent from any item ends at
\* an item without parent: no item is its own ancestor.
C28_NoCycle == \A n \in Nodes : Climb(n, NumNodes) = None

\* ------------------------------------------------------------------ C29
\* row() is right for n: 0 without parent, else a position of n among its
\* parent's children, and no exception.
RowOf(n) ==
    LET r == row(Heap, n)
    IN  /\ r.err = "ok"
        /\ IF _parent[n] = None THEN r.val = 0
           ELSE /\ r.val >= 0 /\ r.val < Len(childItems[_parent[n]])
                /\ childItems[_parent[n]][r.val + 1] = n

\* C29: in every reachable state row() of every item never raises and is
\* 0 for an item without parent and the item's position in its parent's
\* children otherwise; and a step that leaves the item's parent and that
\* parent's children as they were leaves row() as it was.
C29_Row ==
    /\ [](\A n \in Nodes : RowOf(n))
    /\ [][\A n \in Nodes :
            (_parent'[n] = _parent[n] /\ _parent[n] # None
             /\ childItems'[_parent[n]] = childItems[_parent[n]])
            => row(Heap, n)' = row(Heap, n)]_vars

\* ------------------------------------------------------------------ C30
\* C30: once a ListCascadeView has its model, after the assignment and
\* after every change of the current item of a level, each level below the
\* first shows the first child of the current item of the level above it
\* when that item has children and has no current item otherwise; right
\* after the assignment the first level's current item is the first item
\* under the root.
C30_Cascade ==
    (levels[1]._model # None /\ err = "ok") =>
        /\ call = "ListCascadeView.model" =>
               levels[1].cur = index(Heap, 0, 0, QModelIndex).val
        /\ \A k \in 1..(Depth - 1) :
               IF levels[k].cur.valid /\ childItems[levels[k].cur.ptr] # <<>>
               THEN levels[k + 1].cur = createIndex(0, 0, childItems[levels[k].cur.ptr][1])
               ELSE ~levels[k + 1].cur.valid

\* ------------------------------------------------------------------ C31
\* The signal names of one call form brackets: every "about to" signal is
\* followed at once by its closing signal, dataChanged standing alone.
RECURSIVE Paired(_)
Paired(sig) ==
    IF sig = <<>> THEN TRUE
    ELSE IF sig[1] = "dataChanged" THEN Paired(Tail(sig))
    ELSE /\ Len(sig) >= 2
         /\ \/ sig[1] = "rowsAboutToBeInserted" /\ sig[2] = "rowsInserted"
            \/ sig[1] = "rowsAboutToBeRemoved" /\ sig[2] = "rowsRemoved"
         /\ Paired(Tail(Tail(sig)))

\* C31: whatever call was made last, with a row in range or out of range,
\* ended or failed, every "rows about to be inserted" it emitted was followed
\* by "rows inserted" and every "rows about to be removed" by "rows
\* removed" before another signal and before the call was over.
C31_Paired == Paired(events)

\* ------------------------------------------------------------------ C32
\* What each call that keeps the caller's side of the contract leaves
\* behind, edits of the items' data included.
Supported ==
    {add_child(Heap, x.self, x.child) :
         x \in {y \in [self : Nodes, child : Nodes] : Attachable(y.child, y.self)}}
    \cup {remove_child(Heap, p, c) : p \in Nodes, c \in Nodes}
    \cup {set_parent(Heap, n.self, n.parent) :
              n \in {x \in [self : Nodes \ {RootItem}, parent : Nodes \cup {None}] :
                         x.parent = None \/ x.parent \notin Subtree(childItems, x.self)}}
    \cup {set_data(Heap, n, c, v, r) : n \in Nodes, c \in Columns, v \in Values, r \in Roles}
    \cup (IF _root = None THEN {}
          ELSE {removeRow(Heap, r, h) : r \in Rows, h \in Issued}
               \cup {insertRow(Heap, x.row, x.item, x.parent) :
                         x \in {y \in [row : Rows, item : Nodes, parent : Issued] :
                                    Attachable(y.item, ParentItem(y.parent))}})

\* The tree a slot sees when the signal e reaches it: every item under the
\* root has the model, and every child names the item that lists it.
Consistent(e) ==
    \A n \in Subtree(e.childItems, _root) :
        /\ e._model[n] = TheModel
        /\ \A i \in 1..Len(e.childItems[n]) : e._parent[e.childItems[n][i]] = n

\* C32: whatever call emits a signal, at that moment every item reachable
\* from the root has the model and names as _parent the item that lists it;
\* the item "rows about to be removed" announces is among them.
C32_Consistent ==
    _root # None =>
        \A s \in Supported : \A i \in 1..Len(s.events) : Consistent(s.events[i])

\* ------------------------------------------------------------------ C33
\* The heap s as the next call finds it.
Settled(s) == [s EXCEPT !.events = <<>>]

\* C33: for every item p, with or without model, and every child c of p,
\* p.remove_child(c) succeeds and leaves c out of p's children and without
\* _parent; after it c.set_parent(q) and q.add_child(c) succeed for every
\* item q outside c's subtree, p included, and make c the last child of q
\* with q as its _parent.
C33_RemoveChild ==
    \A p \in Nodes, c \in Nodes :
        LET s == remove_child(Heap, p, c)
        IN  PyIndex(childItems[p], c) >= 0 =>
                /\ Ok(s)
                /\ PyIndex(s.childItems[p], c) < 0
                /\ s._parent[c] = None
                /\ \A q \in Nodes \ Subtree(childItems, c) :
                       \A t \in {set_parent(Settled(s), c, q), add_child(Settled(s), q, c)} :
                           /\ Ok(t)
                           /\ t._parent[c] = q
                           /\ Len(t.childItems[q]) > 0
                           /\ t.childItems[q][Len(t.childItems[q])] = c

\* ------------------------------------------------------------------ C34
\* C34: for every level and every handle the model issues, _set_root(index)
\* with the invalid handle does what set_root(index) does and leaves the
\* level's _model alone; with a valid handle it does what set_root(index)
\* does when the level has the handle's model already, and what
\* set_model(model) followed by set_root(index) does when it has not.
C34_SetRoot ==
    \A k \in 0..(Depth - 1), idx \in Issued :
        LET v == _set_root(View, k, idx)
        IN  IF ~idx.valid
            THEN /\ v = ListLevel_set_root(View, k, idx)
                 /\ v.lv[k + 1]._model = levels[k + 1]._model
            ELSE IF levels[k + 1]._model = TheModel
                 THEN v = ListLevel_set_root(View, k, idx)
            ELSE v = ListLevel_set_root(AbstractLevel_set_model(View, k, TheModel), k, idx)

\* ------------------------------------------------------------------ C35
\* The call left every level above level k as it was, raised nothing, and
\* no chain of new_root emissions in it was longer than the levels from k
\* down.
Downward(v, k) ==
    /\ v.err = "ok"
    /\ v.nest = 0
    /\ v.hops <= Depth - k
    /\ \A j \in 1..k : v.lv[j] = levels[j]

\* C35: for every level k, a new root for level k (a handle of the model or
\* the invalid one) and a new current item of level k change no level above
\* k and start no chain of new_root emissions longer than Depth - k; and
\* set_root of the view for a depth past the last level does nothing.
C35_Downward ==
    /\ \A k \in 0..(Depth - 1), idx \in Issued :
           /\ Downward(AbstractCascadeView_set_root(View, k, idx), k)
           /\ levels[k + 1].model # None => Downward(setCurrentIndex(View, k, idx), k)
    /\ \A idx \in Issued : AbstractCascadeView_set_root(View, Depth, idx) = View

\* The view took the model of a tree as deep as the view: the emission of
\* the first level went down to the last one, which has a current item, and
\* a new root for the first level again starts a chain through all levels.
C35_Witness ==
    /\ call = "ListCascadeView.model"
    /\ levels[Depth].cur.valid
    /\ \E idx \in Issued :
          /\ idx.valid
          /\ AbstractCascadeView_set_root(View, 0, idx).hops = Depth

\* ------------------------------------------------------------------ C36
\* The indexes that have an editor registered.
Registered == {i \in EditIndexes : _edit_widgets[i] # None}

\* What closing the editors of the indexes ks[1..i], last one first, emits:
\* for each commitData, then closeEditor, both with the editor and both
\* while it is still registered.
RECURSIVE Closing(_, _)
Closing(ks, i) ==
    IF i = 0 THEN <<>>
    ELSE <<[signal |-> "commitData", editor |-> _edit_widgets[ks[i]], registered |-> TRUE],
           [signal |-> "closeEditor", editor |-> _edit_widgets[ks[i]], registered |-> TRUE]>>
         \o Closing(ks, i - 1)

\* C36: after any sequence of createEditor, commit_close_editor,
\* close_editors and editor_destroyed at most one editor is registered, and
\* edit_widget(index) is an editor only for the index createEditor last made
\* an editor for, and is then that editor; createEditor for any index
\* commits and closes every registered editor (commitData, closeEditor, then
\* the entry goes) and only then registers the new one, so that the new
\* editor, if one was made, is the only entry.
C36_OneEditor ==
    /\ Cardinality(Registered) <= 1
    /\ \A i \in EditIndexes :
           edit_widget(Delegate, i) # None =>
               /\ editors # <<>>
               /\ editors[Len(editors)].index = i
               /\ edit_widget(Delegate, i) = Len(editors)
    /\ \A i \in EditIndexes, e \in BOOLEAN :
           LET d == createEditor(Delegate, i, e)
               ks == keys(Delegate, 0)
           IN  /\ Ok(d)
               /\ d.events = Closing(ks, Len(ks))
               /\ \A j \in EditIndexes :
                      d._edit_widgets[j] = IF e /\ j = i THEN Len(editors) + 1 ELSE None

\* createEditor was called for an index while the editor of another index
\* was open: that one was committed and closed, and the new one is the
\* only editor registered.
C36_Witness ==
    /\ call = "createEditor"
    /\ events = <<"commitData", "closeEditor">>
    /\ Len(editors) >= 2
    /\ editors[Len(editors)].index # editors[Len(editors) - 1].index
    /\ Cardinality(Registered) = 1

\* ------------------------------------------------------------------ C37
\* C37: the flags of a ListItemData built with editable=False are enabled
\* and selectable for every column, those of one built with editable=True
\* have editable as well; and set_data(column, value, role) on one built
\* with editable=False returns False and leaves the list as it was, for
\* every column, value and role.
C37_ReadOnly ==
    \A n \in Nodes : _data[n] # "None" =>
        \A column \in Columns :
            /\ ListItemData_flags(n, column) =
                   IF ItemEditable(n)
                   THEN {"ItemIsEnabled", "ItemIsSelectable", "ItemIsEditable"}
                   ELSE {"ItemIsEnabled", "ItemIsSelectable"}
            /\ ~ItemEditable(n) =>
                   \A value \in Values, role \in Roles :
                       ListItemData_set_data(_list[n], column, value, role) =
                           [val |-> FALSE, list |-> _list[n]]

====
